---- MODULE Spec2Model ----
(***************************************************************************)
(* Shape padding of mm / bmm / addmm in the inductor fx pass               *)
(* torch/_inductor/fx_passes/pad_mm.py.                                    *)
(*                                                                         *)
(* The module holds one state machine per group of operations:             *)
(*   SpecLen    get_padded_length on concrete and symbolic dimensions      *)
(*   SpecCommon should_pad_common on tensor descriptors                    *)
(*   SpecPlan   the padding plan of should_pad_bench and of *_replace      *)
(*   SpecGraph  _result_layout_affects_graph_output on dataflow graphs     *)
(*   SpecDepth  the same traversal started with a small depth bound         *)
(*   SpecGuard  should_pad_mm / should_pad_bmm / should_pad_addmm on a match *)
(*   SpecPad    pad_mm / pad_bmm / pad_addmm on tensors with values        *)
(*   Spec       sequences of should_pad_bench calls over the pad cache,    *)
(*              with the configuration flags changing between calls       *)
(***************************************************************************)
EXTENDS Integers, Sequences, FiniteSets, TLC

VARIABLES
    pc,       \* position of the single-call machines: "start" or "done"
    args,     \* the arguments of the call a single-call machine makes
    ret,      \* what that call returned (or raised)
    config,   \* torch._inductor.config flags, allow_tf32, _skip_do_bench_times
    env,      \* the device and backends of the process
    cache,    \* get_pad_cache(): key -> bool
    hist,     \* per descriptor tuple: first returned boolean, benchmark passes
    last,     \* the last should_pad_bench call and its outcome
    ncalls    \* number of should_pad_bench calls made

vars == <<pc, args, ret, config, env, cache, hist, last, ncalls>>

----------------------------------------------------------------------------
(* Bounds of the model *)

\* largest concrete dimension handed to get_padded_length
MaxLen == 17
\* largest alignment handed to get_padded_length (the code uses 0, 4, 8)
MaxAlign == 8

----------------------------------------------------------------------------
(* Values *)

None == [kind |-> "none"]
Val(v) == [kind |-> "val", val |-> v]
Raised(e) == [kind |-> "raise", exc |-> e]

\* A dimension or stride: a concrete int, or a torch.SymInt with an
\* optional hint (hint = -1: the symbol has no hint).
NoHint == 0 - 1
IntDim(n) == [sym |-> FALSE, v |-> n, name |-> ""]
SymDim(s, h) == [sym |-> TRUE, v |-> h, name |-> s]

Max(a, b) == IF a >= b THEN a ELSE b

----------------------------------------------------------------------------
(* Shape / alignment utilities *)

get_alignment_size(x) ==
    IF x.dtype \in {"float16", "bfloat16"} THEN 8
    ELSE IF x.dtype = "float32" THEN 4
    ELSE 0

\* mutant: the "already a multiple" test is lost, an aligned dimension is
\* rounded up to the next multiple
get_padded_length_always_rounds(x, alignment_size) ==
    IF x.sym \/ alignment_size = 0
    THEN 0
    ELSE ((x.v \div alignment_size) + 1) * alignment_size - x.v

get_padded_length(x, alignment_size) ==
    IF x.sym \/ alignment_size = 0 \/ x.v % alignment_size = 0
    THEN 0
    ELSE ((x.v \div alignment_size) + 1) * alignment_size - x.v

----------------------------------------------------------------------------
(* Defaults of the variables a machine does not use *)

DefaultConfig ==
    [shape_padding |-> TRUE, keep_output_stride |-> TRUE,
     force_shape_pad |-> FALSE, shape_pad_use_transpose |-> TRUE,
     allow_tf32 |-> FALSE, skip_do_bench_times |-> FALSE]

DefaultEnv ==
    [has_triton |-> TRUE, cutlass |-> FALSE, device_known |-> TRUE,
     tflops |-> 1, gbps |-> 1000]

EmptyMap == [k \in {} |-> FALSE]

Idle ==
    /\ cache = EmptyMap
    /\ hist = EmptyMap
    /\ last = None
    /\ ncalls = 0

----------------------------------------------------------------------------
(* SpecLen: get_padded_length *)

LenDims ==
    {IntDim(n) : n \in 0..MaxLen}
      \cup {SymDim("s0", h) : h \in {NoHint, 4, 5}}

InitLen ==
    /\ pc = "start"
    /\ args \in [x : LenDims, a : 0..MaxAlign]
    /\ ret = None
    /\ config = DefaultConfig
    /\ env = DefaultEnv
    /\ Idle

CallGetPaddedLength ==
    /\ pc = "start"
    /\ ret' = Val(get_padded_length(args.x, args.a))
    /\ pc' = "done"
    /\ UNCHANGED <<args, config, env, cache, hist, last, ncalls>>

NextLen == CallGetPaddedLength

SpecLen == InitLen /\ [][NextLen]_vars

\* C7: get_padded_length(d, a) is 0 when d is symbolic, when a = 0 or when d
\* is a multiple of a; for concrete d >= 0 and a > 0 the pad p satisfies
\* 0 <= p < a and (d + p) % a = 0.
C7_PaddedLength ==
    pc = "done" =>
        LET d == args.x
            a == args.a
            p == ret.val
        IN /\ d.sym => p = 0
           /\ a = 0 => p = 0
           /\ (~d.sym /\ a > 0) =>
                /\ (d.v % a = 0 => p = 0)
                /\ 0 <= p /\ p < a
                /\ (d.v + p) % a = 0

\* a concrete, unaligned dimension was rounded up by a positive amount
C7_Witness ==
    /\ pc = "done"
    /\ ~args.x.sym /\ args.a > 0 /\ args.x.v % args.a # 0
    /\ ret.val > 0
    /\ (args.x.v + ret.val) % args.a = 0

----------------------------------------------------------------------------
(* Tensor descriptors (FakeTensor): shape and stride of dimensions, dtype,  *)
(* device                                                                   *)

DimStr(d) == IF d.sym THEN d.name ELSE ToString(d.v)

\* product of two sizes, as the stride of a contiguous tensor holds it
DimMul(a, b) ==
    IF ~a.sym /\ ~b.sym THEN IntDim(a.v * b.v)
    ELSE SymDim(DimStr(a) \o "*" \o DimStr(b),
                IF a.v = NoHint \/ b.v = NoHint THEN NoHint ELSE a.v * b.v)

ContiguousStride(shape) ==
    IF Len(shape) = 0 THEN <<>>
    ELSE IF Len(shape) = 1 THEN <<IntDim(1)>>
    ELSE IF Len(shape) = 2 THEN <<shape[2], IntDim(1)>>
    ELSE <<DimMul(shape[2], shape[3]), shape[3], IntDim(1)>>

Desc(shape, stride, dtype, is_cuda) ==
    [shape |-> shape, stride |-> stride, dtype |-> dtype, is_cuda |-> is_cuda]

CudaDesc(shape, dtype) == Desc(shape, ContiguousStride(shape), dtype, TRUE)

is_floating_point(t) == t.dtype \in {"float16", "bfloat16", "float32", "float64"}

check_device(a, b) == a.is_cuda /\ b.is_cuda

check_dtype(a, b) == is_floating_point(a) /\ is_floating_point(b)

----------------------------------------------------------------------------
(* Eligibility filter *)

HasHint(x) == x.v # NoHint

\* mutant: the strides are not looked at
valid_shape_only(t) ==
    IF t = None THEN TRUE
    ELSE IF \E i \in 1..Len(t.shape) : t.shape[i].sym /\ ~HasHint(t.shape[i])
    THEN FALSE
    ELSE Cardinality({i \in 1..Len(t.shape) : t.shape[i].sym}) # Len(t.shape)

valid_shape_and_stride(t) ==
    IF t = None THEN TRUE
    ELSE IF \E i \in 1..Len(t.shape) : t.shape[i].sym /\ ~HasHint(t.shape[i])
    THEN FALSE
    ELSE LET symbolic_cnt == Cardinality({i \in 1..Len(t.shape) : t.shape[i].sym})
         IN IF symbolic_cnt = Len(t.shape)
            THEN FALSE
            ELSE \A i \in 1..Len(t.stride) :
                    ~t.stride[i].sym \/ (t.stride[i].sym /\ HasHint(t.stride[i]))

should_pad_common(mat1, mat2, input) ==
    /\ config.shape_padding
    /\ check_device(mat1, mat2)
    /\ check_dtype(mat1, mat2)
    /\ \A t \in {mat1, mat2, input} : valid_shape_and_stride(t)

----------------------------------------------------------------------------
(* SpecCommon: should_pad_common *)

CommonShapes ==
    { <<IntDim(4), IntDim(5)>>,
      <<SymDim("s0", 4), IntDim(5)>>,
      <<SymDim("s0", 4), SymDim("s1", 5)>>,
      <<SymDim("u0", NoHint), IntDim(5)>> }

CommonStrides ==
    { <<IntDim(5), IntDim(1)>>,
      <<SymDim("s1", 5), IntDim(1)>>,
      <<SymDim("u1", NoHint), IntDim(1)>> }

CommonDescs ==
    { Desc(sh, st, dt, cu) :
        sh \in CommonShapes, st \in CommonStrides,
        dt \in {"float32", "int64"}, cu \in BOOLEAN }

\* a 0-d bias, and biases of rank 1 and 2
CommonInputs ==
    { None, Desc(<<>>, <<>>, "float32", TRUE) }
      \cup { Desc(<<d>>, <<s>>, dt, cu) :
               d \in {IntDim(5), SymDim("s1", 5)},
               s \in {IntDim(1), SymDim("u1", NoHint)},
               dt \in {"float32", "int64"}, cu \in BOOLEAN }
      \cup { t \in CommonDescs : t.dtype = "float32" }

InitCommon ==
    /\ pc = "start"
    /\ args \in [mat1 : CommonDescs, mat2 : CommonDescs, input : CommonInputs]
    /\ ret = None
    /\ config \in {[DefaultConfig EXCEPT !.shape_padding = b] : b \in BOOLEAN}
    /\ env = DefaultEnv
    /\ Idle

CallShouldPadCommon ==
    /\ pc = "start"
    /\ ret' = Val(should_pad_common(args.mat1, args.mat2, args.input))
    /\ pc' = "done"
    /\ UNCHANGED <<args, config, env, cache, hist, last, ncalls>>

NextCommon == CallShouldPadCommon

SpecCommon == InitCommon /\ [][NextCommon]_vars

\* pad-eligible as the data model words it: every dimension is concrete or
\* symbolic with a hint, and not all dimensions are symbolic
DimsEligible(t) ==
    /\ \A i \in 1..Len(t.shape) : ~t.shape[i].sym \/ HasHint(t.shape[i])
    /\ ~(\A i \in 1..Len(t.shape) : t.shape[i].sym)

StridesHinted(t) ==
    \A i \in 1..Len(t.stride) : ~t.stride[i].sym \/ HasHint(t.stride[i])

Operands == {args.mat1, args.mat2} \cup ({args.input} \ {None})

\* C8 as stated: should_pad_common is true iff shape_padding is set, mat1 and
\* mat2 are on the accelerator and floating-point, and each of mat1, mat2
\* and the optional bias is pad-eligible by its dimensions alone.
C8_Original ==
    pc = "done" =>
        (ret.val <=>
            /\ config.shape_padding
            /\ args.mat1.is_cuda /\ args.mat2.is_cuda
            /\ is_floating_point(args.mat1) /\ is_floating_point(args.mat2)
            /\ \A t \in Operands : DimsEligible(t))

\* C8 amended: as C8, and moreover every stride of every operand is concrete
\* or symbolic with a hint.
C8_Amended ==
    pc = "done" =>
        (ret.val <=>
            /\ config.shape_padding
            /\ args.mat1.is_cuda /\ args.mat2.is_cuda
            /\ is_floating_point(args.mat1) /\ is_floating_point(args.mat2)
            /\ \A t \in Operands : DimsEligible(t) /\ StridesHinted(t))

\* accepted: a bias is given, an operand has a symbolic dimension with a
\* hint and a symbolic stride with a hint
C8_Witness ==
    /\ pc = "done" /\ ret.val
    /\ args.input # None
    /\ args.mat1.shape[1].sym
    /\ args.mat1.stride[1].sym

----------------------------------------------------------------------------
(* The padding plan (m_padded_length, k_padded_length, n_padded_length,     *)
(* explicit_transpose), computed four times in the source                   *)

Ops == {"mm", "bmm", "addmm"}

Plan(m, k, n, et) == [m |-> m, k |-> k, n |-> n, et |-> et]

IsSymInt(d) == d.sym

\* the dimensions should_pad_bench reads off the operands
bench_dims(mat1, mat2, op) ==
    IF op \in {"mm", "addmm"}
    THEN [batchsize |-> IntDim(1), m |-> mat1.shape[1], k |-> mat1.shape[2],
          n |-> mat2.shape[2]]
    ELSE [batchsize |-> mat1.shape[1], m |-> mat1.shape[2], k |-> mat1.shape[3],
          n |-> mat2.shape[3]]

\* should_pad_bench up to the plan; op is one of mm, addmm, bmm
bench_plan(mat1, mat2, op) ==
    LET d == bench_dims(mat1, mat2, op)
        k_padded_length == get_padded_length(d.k, get_alignment_size(mat1))
        n_padded_length == get_padded_length(d.n, get_alignment_size(mat2))
        m_padded_length == get_padded_length(d.m, get_alignment_size(mat1))
        may_use_transpose ==
            config.shape_pad_use_transpose
              /\ ~\E x \in {d.m, d.n, d.k} : IsSymInt(x)
    IN IF may_use_transpose /\ m_padded_length = 0 /\ n_padded_length # 0
       THEN Plan(0, k_padded_length, 0, TRUE)
       ELSE IF may_use_transpose /\ n_padded_length = 0 /\ m_padded_length # 0
       THEN Plan(0, k_padded_length, n_padded_length, FALSE)
       ELSE Plan(m_padded_length, k_padded_length, n_padded_length, FALSE)

\* mutant: the branch that drops the M pad is missing
mm_replace_plan_keeps_m(mat1, mat2) ==
    LET m == mat1.shape[1]
        n == mat2.shape[2]
        k == mat1.shape[2]
        may_use_transpose ==
            config.shape_pad_use_transpose /\ ~\E x \in {m, n, k} : IsSymInt(x)
        k_padded_length == get_padded_length(k, get_alignment_size(mat1))
        m_padded_length == get_padded_length(m, get_alignment_size(mat1))
        n_padded_length == get_padded_length(n, get_alignment_size(mat2))
    IN IF may_use_transpose /\ m_padded_length = 0 /\ n_padded_length # 0
       THEN Plan(0, k_padded_length, 0, TRUE)
       ELSE Plan(m_padded_length, k_padded_length, n_padded_length, FALSE)

mm_replace_plan(mat1, mat2) ==
    LET m == mat1.shape[1]
        n == mat2.shape[2]
        k == mat1.shape[2]
        may_use_transpose ==
            config.shape_pad_use_transpose /\ ~\E x \in {m, n, k} : IsSymInt(x)
        k_padded_length == get_padded_length(k, get_alignment_size(mat1))
        m_padded_length == get_padded_length(m, get_alignment_size(mat1))
        n_padded_length == get_padded_length(n, get_alignment_size(mat2))
    IN IF may_use_transpose /\ m_padded_length = 0 /\ n_padded_length # 0
       THEN Plan(0, k_padded_length, 0, TRUE)
       ELSE IF may_use_transpose /\ m_padded_length # 0 /\ n_padded_length = 0
       THEN Plan(0, k_padded_length, n_padded_length, FALSE)
       ELSE Plan(m_padded_length, k_padded_length, n_padded_length, FALSE)

bmm_replace_plan(mat1, mat2) ==
    LET m == mat1.shape[2]
        n == mat2.shape[3]
        k == mat1.shape[3]
        may_use_transpose ==
            config.shape_pad_use_transpose /\ ~\E x \in {m, n, k} : IsSymInt(x)
        k_padded_length == get_padded_length(k, get_alignment_size(mat1))
        n_padded_length == get_padded_length(n, get_alignment_size(mat2))
        m_padded_length == get_padded_length(m, get_alignment_size(mat1))
    IN IF may_use_transpose /\ m_padded_length = 0 /\ n_padded_length # 0
       THEN Plan(0, k_padded_length, 0, TRUE)
       ELSE IF may_use_transpose /\ m_padded_length # 0 /\ n_padded_length = 0
       THEN Plan(0, k_padded_length, n_padded_length, FALSE)
       ELSE Plan(m_padded_length, k_padded_length, n_padded_length, FALSE)

\* explicit_transpose starts as 0 here, which Python equates with False
addmm_replace_plan(input, mat1, mat2) ==
    LET m == mat1.shape[1]
        n == mat2.shape[2]
        k == mat1.shape[2]
        may_use_transpose ==
            config.shape_pad_use_transpose /\ ~\E x \in {m, n, k} : IsSymInt(x)
        k_padded_length == get_padded_length(k, get_alignment_size(mat1))
        n_padded_length == get_padded_length(n, get_alignment_size(mat2))
        m_padded_length == get_padded_length(m, get_alignment_size(mat1))
    IN IF may_use_transpose /\ m_padded_length = 0 /\ n_padded_length # 0
            /\ Len(input.shape) >= 2
       THEN Plan(0, k_padded_length, 0, TRUE)
       ELSE IF may_use_transpose /\ m_padded_length # 0 /\ n_padded_length = 0
       THEN Plan(0, k_padded_length, n_padded_length, FALSE)
       ELSE Plan(m_padded_length, k_padded_length, n_padded_length, FALSE)

replace_plan(op, input, mat1, mat2) ==
    IF op = "mm" THEN mm_replace_plan(mat1, mat2)
    ELSE IF op = "bmm" THEN bmm_replace_plan(mat1, mat2)
    ELSE addmm_replace_plan(input, mat1, mat2)

----------------------------------------------------------------------------
(* SpecPlan: the plan of the guard, then the plan of the replacement *)

\* concrete sizes 1..MaxPlanDim, a symbolic size, and the sizes of the
\* vocabulary-projection matmul of test_padding.py
MaxPlanDim == 8
VocabSize == 30523
HiddenSize == 768
TokenCount == 8192

PlanDims == {IntDim(n) : n \in 1..MaxPlanDim} \cup {SymDim("s0", 5)}

PlanDtypes == {"float16", "float32", "int64"}

PlanBatch == IntDim(2)

\* the bias of an addmm candidate: 0-d, [N], [M, N]
BiasShapes(m, n) == {<<>>, <<n>>, <<m, n>>}

PlanCandidates ==
    { [op |-> "mm", mat1 |-> CudaDesc(<<m, k>>, dt), mat2 |-> CudaDesc(<<k, n>>, dt),
       input |-> None] : m \in PlanDims, k \in PlanDims, n \in PlanDims,
                         dt \in PlanDtypes }
    \cup
    { [op |-> "bmm", mat1 |-> CudaDesc(<<PlanBatch, m, k>>, dt),
       mat2 |-> CudaDesc(<<PlanBatch, k, n>>, dt),
       input |-> None] : m \in PlanDims, k \in PlanDims, n \in PlanDims,
                         dt \in PlanDtypes }
    \cup
    UNION { { [op |-> "addmm", mat1 |-> CudaDesc(<<m, k>>, dt),
               mat2 |-> CudaDesc(<<k, n>>, dt),
               input |-> CudaDesc(b, dt)] : b \in BiasShapes(m, n) } :
            m \in PlanDims, k \in PlanDims, n \in PlanDims, dt \in PlanDtypes }
    \cup
    { [op |-> "mm",
       mat1 |-> CudaDesc(<<IntDim(VocabSize), IntDim(HiddenSize)>>, "float32"),
       mat2 |-> CudaDesc(<<IntDim(HiddenSize), IntDim(TokenCount)>>, "float32"),
       input |-> None] }

PlanConfigs ==
    { [DefaultConfig EXCEPT !.shape_pad_use_transpose = t, !.force_shape_pad = f,
                            !.shape_padding = p, !.keep_output_stride = o] :
        t \in BOOLEAN, f \in BOOLEAN, p \in BOOLEAN, o \in BOOLEAN }

InitPlan ==
    /\ pc = "start"
    /\ args \in PlanCandidates
    /\ ret = [bench |-> None, replace |-> None]
    /\ config \in PlanConfigs
    /\ env = DefaultEnv
    /\ Idle

\* the guard computes its plan (should_pad_bench, lines 397-428)
GuardPlan ==
    /\ pc = "start"
    /\ ret' = [ret EXCEPT !.bench = Val(bench_plan(args.mat1, args.mat2, args.op))]
    /\ pc' = "guarded"
    /\ UNCHANGED <<args, config, env, cache, hist, last, ncalls>>

\* the replacement computes the plan it hands to pad_mm / pad_bmm / pad_addmm
ReplacePlan ==
    /\ pc = "guarded"
    /\ ret' = [ret EXCEPT
                 !.replace = Val(replace_plan(args.op, args.input, args.mat1, args.mat2))]
    /\ pc' = "done"
    /\ UNCHANGED <<args, config, env, cache, hist, last, ncalls>>

NextPlan == GuardPlan \/ ReplacePlan

SpecPlan == InitPlan /\ [][NextPlan]_vars

PlanM == bench_dims(args.mat1, args.mat2, args.op).m
PlanK == bench_dims(args.mat1, args.mat2, args.op).k
PlanN == bench_dims(args.mat1, args.mat2, args.op).n

IsVocabCase ==
    /\ args.op = "mm"
    /\ args.mat1.shape = <<IntDim(VocabSize), IntDim(HiddenSize)>>
    /\ args.mat2.shape = <<IntDim(HiddenSize), IntDim(TokenCount)>>
    /\ args.mat1.dtype = "float32"

\* C4 as stated: for mm of [30523,768] by [768,8192] in float32 the plan
\* mm_replace passes to pad_mm is (1, 0, 0, no transpose) under every
\* setting of the flags.
C4_Original ==
    (pc = "done" /\ IsVocabCase) => ret.replace.val = Plan(1, 0, 0, FALSE)

\* C4 amended: that plan is (1, 0, 0, no transpose) when
\* shape_pad_use_transpose is off, and (0, 0, 0, no transpose), nothing
\* padded, when it is on.
C4_Amended ==
    (pc = "done" /\ IsVocabCase) =>
        ret.replace.val =
            IF config.shape_pad_use_transpose
            THEN Plan(0, 0, 0, FALSE)
            ELSE Plan(1, 0, 0, FALSE)

\* the vocabulary case went through mm_replace with the transpose flag off
\* and M alone is padded, by 1
C4_Witness ==
    /\ pc = "done" /\ IsVocabCase
    /\ ~config.shape_pad_use_transpose
    /\ ret.replace.val.m = 1 /\ ret.replace.val.k = 0 /\ ret.replace.val.n = 0

\* the transpose strategy is available to the candidate
MayUseTranspose ==
    /\ config.shape_pad_use_transpose
    /\ ~PlanM.sym /\ ~PlanK.sym /\ ~PlanN.sym

\* a concrete size that is not a multiple of the (nonzero) alignment
Unaligned(d, t) ==
    /\ ~d.sym
    /\ get_alignment_size(t) # 0
    /\ d.v % get_alignment_size(t) # 0

AtMostOneOfMN(plan) == ~(plan.m # 0 /\ plan.n # 0)

\* C9 as stated: whenever the transpose strategy is available, the plan of
\* should_pad_bench and the plan of the replacement each have at most one
\* of m_pad, n_pad nonzero.
C9_Original ==
    (pc = "done" /\ MayUseTranspose) =>
        AtMostOneOfMN(ret.bench.val) /\ AtMostOneOfMN(ret.replace.val)

\* C9 amended: whenever the transpose strategy is available and M and N are
\* not both unaligned, each plan has at most one of m_pad, n_pad nonzero;
\* when both are unaligned both pads are kept.
C9_Amended ==
    (pc = "done" /\ MayUseTranspose) =>
        IF Unaligned(PlanM, args.mat1) /\ Unaligned(PlanN, args.mat2)
        THEN /\ ret.bench.val.m # 0 /\ ret.bench.val.n # 0
             /\ ret.replace.val.m # 0 /\ ret.replace.val.n # 0
        ELSE AtMostOneOfMN(ret.bench.val) /\ AtMostOneOfMN(ret.replace.val)

\* transpose available, N alone unaligned: the N pad was dropped for the
\* explicit transpose
C9_Witness ==
    /\ pc = "done" /\ MayUseTranspose
    /\ ~Unaligned(PlanM, args.mat1) /\ Unaligned(PlanN, args.mat2)
    /\ ret.bench.val.et /\ ret.bench.val.n = 0
    /\ ret.replace.val.et /\ ret.replace.val.n = 0

----------------------------------------------------------------------------
(* Output-layout sensitivity analyzer *)

_LAYOUT_REPLACING_FUNCTIONS ==
    {"aten.addmm", "aten.mm", "aten.bmm", "aten.baddbmm", "aten.constant_pad_nd",
     "aten.as_strided", "aten.argmax", "aten.max", "aten.argmin", "aten.min",
     "aten.align_to", "aten.align_as", "aten.contiguous", "aten.embedding",
     "aten.empty", "aten.new_empty", "aten.new_empty_strided", "aten.new_ones",
     "aten.new_zeros", "aten.new_full", "aten.empty_permuted",
     "aten.embedding_bag", "aten.empty_strided", "aten.linspace"}

\* default of recursively_search's depth parameter
RecursionDepth == 100000

\* An argument of a node: a node (by its index in graph.nodes), a list or
\* tuple of arguments, or anything else (a scalar).
NodeArg(i) == [kind |-> "node", id |-> i, elems |-> <<>>]
ListArg(xs) == [kind |-> "list", id |-> 0, elems |-> xs]
ScalarArg == [kind |-> "scalar", id |-> 0, elems |-> <<>>]

FxNode(op, target, a, kw) == [op |-> op, target |-> target, args |-> a, kwargs |-> kw]

RECURSIVE recursively_search(_, _, _, _)
RECURSIVE any_recursively_search(_, _, _, _)

\* any(recursively_search(subn, depth) for subn in xs): left to right, stops
\* at the first True, an exception propagates
any_recursively_search(graph, search_node, xs, depth) ==
    IF xs = <<>> THEN "False"
    ELSE LET r == recursively_search(graph, search_node, Head(xs), depth)
         IN IF r = "False"
            THEN any_recursively_search(graph, search_node, Tail(xs), depth)
            ELSE r

RECURSIVE recursively_search_gives_up(_, _, _, _)
\* mutant: at depth 0 the search gives up with False instead of raising
recursively_search_gives_up(graph, search_node, n, depth) ==
    IF depth = 0 THEN "False"
    ELSE IF n.kind = "node" /\ n.id = search_node THEN "True"
    ELSE IF n.kind = "list"
    THEN any_recursively_search(graph, search_node, n.elems, depth - 1)
    ELSE IF n.kind # "node" THEN "False"
    ELSE LET node == graph[n.id]
         IN IF node.op \in {"call_method", "call_module"} THEN "AssertionError"
            ELSE IF node.op # "call_function" /\ node.op # "output" THEN "False"
            ELSE IF node.target \in _LAYOUT_REPLACING_FUNCTIONS THEN "False"
            ELSE LET a == any_recursively_search(graph, search_node, node.args,
                                                 depth - 1)
                 IN IF a # "False" THEN a
                    ELSE any_recursively_search(graph, search_node, node.kwargs,
                                                depth - 1)

RECURSIVE recursively_search_list_first(_, _, _, _)
\* mutant: the allow-list is consulted before the node is compared with the
\* candidate
recursively_search_list_first(graph, search_node, n, depth) ==
    IF depth = 0 THEN "RuntimeError"
    ELSE IF n.kind = "list"
    THEN any_recursively_search(graph, search_node, n.elems, depth - 1)
    ELSE IF n.kind # "node" THEN "False"
    ELSE LET node == graph[n.id]
         IN IF node.op \in {"call_method", "call_module"} THEN "AssertionError"
            ELSE IF node.op # "call_function" /\ node.op # "output" THEN "False"
            ELSE IF node.target \in _LAYOUT_REPLACING_FUNCTIONS THEN "False"
            ELSE IF n.id = search_node THEN "True"
            ELSE LET a == any_recursively_search(graph, search_node, node.args,
                                                 depth - 1)
                 IN IF a # "False" THEN a
                    ELSE any_recursively_search(graph, search_node, node.kwargs,
                                                depth - 1)

recursively_search(graph, search_node, n, depth) ==
    IF depth = 0 THEN "RuntimeError"
    ELSE IF n.kind = "node" /\ n.id = search_node THEN "True"
    ELSE IF n.kind = "list"
    THEN any_recursively_search(graph, search_node, n.elems, depth - 1)
    ELSE IF n.kind # "node" THEN "False"
    ELSE LET node == graph[n.id]
         IN IF node.op \in {"call_method", "call_module"} THEN "AssertionError"
            ELSE IF node.op # "call_function" /\ node.op # "output" THEN "False"
            ELSE IF node.target \in _LAYOUT_REPLACING_FUNCTIONS THEN "False"
            ELSE LET a == any_recursively_search(graph, search_node, node.args,
                                                 depth - 1)
                 IN IF a # "False" THEN a
                    ELSE any_recursively_search(graph, search_node, node.kwargs,
                                                depth - 1)

output_nodes(graph) ==
    SelectSeq([i \in 1..Len(graph) |-> NodeArg(i)],
              LAMBDA x : graph[x.id].op = "output")

\* the analysis with recursively_search started at the given depth on each
\* output node
layout_search(graph, search_node, depth) ==
    LET outs == output_nodes(graph)
        r == any_recursively_search(graph, search_node, outs, depth)
    IN IF Len(outs) > 0 /\ r # "False"
       THEN (IF r = "True" THEN Val(TRUE) ELSE Raised(r))
       ELSE Val(FALSE)

_result_layout_affects_graph_output(graph, search_node) ==
    layout_search(graph, search_node, RecursionDepth)

----------------------------------------------------------------------------
(* SpecGraph: functional graphs  x -> candidate -> inner nodes -> output    *)

\* number of nodes between the candidate and the output node
NInner == 2

Placeholder == 1
Candidate == 2
OutputNode == NInner + 3

InnerTargets == {"aten.relu", "aten.contiguous"}

\* how a node takes the nodes it uses: positionally, inside a list, or by
\* keyword; each inner node also takes a scalar and the placeholder
ArgModes == {"args", "list", "kwargs"}

SetToSeq(S) ==
    LET RECURSIVE build(_, _)
        build(T, acc) ==
            IF T = {} THEN acc
            ELSE LET x == CHOOSE y \in T : \A z \in T : y <= z
                 IN build(T \ {x}, Append(acc, NodeArg(x)))
    IN build(S, <<>>)

InnerNode(target, mode, preds) ==
    IF mode = "args"
    THEN FxNode("call_function", target,
                <<ScalarArg, NodeArg(Placeholder)>> \o SetToSeq(preds), <<>>)
    ELSE IF mode = "list"
    THEN FxNode("call_function", target,
                <<ListArg(<<NodeArg(Placeholder)>> \o SetToSeq(preds)), ScalarArg>>,
                <<>>)
    ELSE FxNode("call_function", target,
                <<NodeArg(Placeholder)>>, <<ScalarArg>> \o SetToSeq(preds))

InnerChoices(i) ==
    { InnerNode(t, md, ps) :
        t \in InnerTargets, md \in ArgModes, ps \in SUBSET (Candidate..(i - 1)) }

\* the output node returns a tuple of nodes
OutputChoices ==
    { FxNode("output", "output", <<ListArg(SetToSeq(ps))>>, <<>>) :
        ps \in (SUBSET (Candidate..(OutputNode - 1))) \ {{}} }

RECURSIVE GraphsUpTo(_)
\* the graphs of nodes 1..i, before the output node is appended
GraphsUpTo(i) ==
    IF i = Candidate
    THEN { << FxNode("placeholder", "x", <<>>, <<>>),
              FxNode("call_function", "aten.mm",
                     <<NodeArg(Placeholder), NodeArg(Placeholder)>>, <<>>) >> }
    ELSE { Append(g, c) : g \in GraphsUpTo(i - 1), c \in InnerChoices(i) }

Graphs == { Append(g, out) : g \in GraphsUpTo(OutputNode - 1), out \in OutputChoices }

InitGraph ==
    /\ pc = "start"
    /\ args \in [graph : Graphs, search_node : {Candidate}]
    /\ ret = None
    /\ config = DefaultConfig
    /\ env = DefaultEnv
    /\ Idle

CallResultLayoutAffectsGraphOutput ==
    /\ pc = "start"
    /\ ret' = _result_layout_affects_graph_output(args.graph, args.search_node)
    /\ pc' = "done"
    /\ UNCHANGED <<args, config, env, cache, hist, last, ncalls>>

NextGraph == CallResultLayoutAffectsGraphOutput

SpecGraph == InitGraph /\ [][NextGraph]_vars

RECURSIVE ArgNodes(_)
\* the nodes an argument holds, lists and tuples opened
ArgNodes(x) ==
    IF x.kind = "node" THEN {x.id}
    ELSE IF x.kind = "list"
    THEN UNION {ArgNodes(x.elems[i]) : i \in 1..Len(x.elems)}
    ELSE {}

\* the args/kwargs edges of the graph: the nodes node i uses
Uses(g, i) ==
    UNION ({ArgNodes(g[i].args[j]) : j \in 1..Len(g[i].args)}
             \cup {ArgNodes(g[i].kwargs[j]) : j \in 1..Len(g[i].kwargs)})

\* a chain of args/kwargs edges from an output node down to the candidate,
\* as the set of its nodes (graph.nodes is in topological order), whose
\* inner nodes have no target in the allow-list
CleanChains(g, c) ==
    { S \in SUBSET (c..Len(g)) :
        /\ c \in S
        /\ \E o \in S : g[o].op = "output" /\ \A x \in S : x <= o
        /\ \A x \in S \ {c} :
             LET y == CHOOSE z \in S : z < x /\ \A w \in S : w < x => w <= z
             IN /\ y \in Uses(g, x)
                /\ (g[x].op # "output" =>
                      g[x].target \notin _LAYOUT_REPLACING_FUNCTIONS) }

\* C6: on a functional graph _result_layout_affects_graph_output is true
\* exactly when an output node reaches the candidate backward over
\* args/kwargs edges (lists and tuples opened) along a path none of whose
\* inner nodes has an allow-listed target.
C6_LayoutReachability ==
    pc = "done" =>
        /\ ret.kind = "val"
        /\ ret.val <=> CleanChains(args.graph, args.search_node) # {}

\* the candidate reaches the output only through an inner node, once over
\* an allow-listed one and once over a clean one: affected
C6_WitnessAffected ==
    /\ pc = "done" /\ ret = Val(TRUE)
    /\ Candidate \notin Uses(args.graph, OutputNode)
    /\ \E i \in 3..(OutputNode - 1) :
         /\ i \in Uses(args.graph, OutputNode)
         /\ Candidate \in Uses(args.graph, i)
         /\ args.graph[i].target \in _LAYOUT_REPLACING_FUNCTIONS

----------------------------------------------------------------------------
(* SpecDepth: the traversal started with a small depth on the same graphs   *)

\* largest depth recursively_search is started with
MaxDepth == 5

\* the deepest chain of the graphs takes more than MaxDepth nested calls,
\* the shallowest fewer than MaxDepth - 2
Depths == (MaxDepth - 2)..MaxDepth

InitDepth ==
    /\ pc = "start"
    /\ args \in [graph : Graphs, search_node : {Candidate}, depth : Depths]
    /\ ret = None
    /\ config = DefaultConfig
    /\ env = DefaultEnv
    /\ Idle

CallLayoutSearch ==
    /\ pc = "start"
    /\ ret' = layout_search(args.graph, args.search_node, args.depth)
    /\ pc' = "done"
    /\ UNCHANGED <<args, config, env, cache, hist, last, ncalls>>

NextDepth == CallLayoutSearch

SpecDepth == InitDepth /\ [][NextDepth]_vars

Trace(found, levels) == [found |-> found, levels |-> levels]

RECURSIVE Traverse(_, _, _)
RECURSIVE TraverseAll(_, _, _)

\* the traversal of a functional graph from argument n with no bound: what
\* it finds, and how many calls deep it nests, this one counted
Traverse(g, c, n) ==
    IF n.kind = "node" /\ n.id = c THEN Trace(TRUE, 1)
    ELSE IF n.kind = "list"
    THEN LET t == TraverseAll(g, c, n.elems) IN Trace(t.found, 1 + t.levels)
    ELSE IF n.kind # "node" THEN Trace(FALSE, 1)
    ELSE IF g[n.id].op \notin {"call_function", "output"} THEN Trace(FALSE, 1)
    ELSE IF g[n.id].target \in _LAYOUT_REPLACING_FUNCTIONS THEN Trace(FALSE, 1)
    ELSE LET a == TraverseAll(g, c, g[n.id].args)
             k == TraverseAll(g, c, g[n.id].kwargs)
         IN IF a.found THEN Trace(TRUE, 1 + a.levels)
            ELSE Trace(k.found, 1 + Max(a.levels, k.levels))

\* left to right, up to the first argument that finds the candidate
TraverseAll(g, c, xs) ==
    IF xs = <<>> THEN Trace(FALSE, 0)
    ELSE LET h == Traverse(g, c, Head(xs))
             t == TraverseAll(g, c, Tail(xs))
         IN IF h.found THEN h ELSE Trace(t.found, Max(h.levels, t.levels))

\* C15: whenever the backward traversal from an output node nests deeper
\* than the depth bound the function raises the recursion-depth error
\* instead of returning true or false; otherwise it returns the boolean of
\* the traversal; so it returns a boolean or raises that error.
C15_DepthBound ==
    pc = "done" =>
        LET t == TraverseAll(args.graph, args.search_node,
                             output_nodes(args.graph))
        IN IF t.levels > args.depth
           THEN ret = Raised("RuntimeError")
           ELSE ret = Val(t.found)

\* the bound was exceeded on a graph whose output depends on the candidate:
\* the error was raised, not true
C15_Witness ==
    /\ pc = "done"
    /\ ret = Raised("RuntimeError")
    /\ _result_layout_affects_graph_output(args.graph, args.search_node)
          = Val(TRUE)

----------------------------------------------------------------------------
(* Tensors with values: shape (of ints), dtype, and one value per index     *)

RECURSIVE Idx(_)
\* the index tuples of a shape
Idx(shape) ==
    IF shape = <<>> THEN {<<>>}
    ELSE {<<i>> \o r : i \in 1..Head(shape), r \in Idx(Tail(shape))}

\* data is a function on Idx(shape)
Tensor(shape, dtype, data) ==
    [shape |-> shape, dtype |-> dtype, data |-> data]

\* aten.constant_pad_nd(t, pad) with zeros: pad lists (left, right) pairs
\* from the last dimension backwards
constant_pad_nd(t, pad) ==
    LET rank == Len(t.shape)
        left(d) == IF 2 * (rank - d) + 2 <= Len(pad)
                   THEN pad[2 * (rank - d) + 1] ELSE 0
        right(d) == IF 2 * (rank - d) + 2 <= Len(pad)
                    THEN pad[2 * (rank - d) + 2] ELSE 0
        padded == [d \in 1..rank |-> t.shape[d] + left(d) + right(d)]
    IN Tensor(padded, t.dtype,
              [ix \in Idx(padded) |->
                IF \A d \in 1..rank :
                      ix[d] > left(d) /\ ix[d] <= left(d) + t.shape[d]
                THEN t.data[[d \in 1..rank |-> ix[d] - left(d)]]
                ELSE 0])

\* t.transpose(-1, -2)
transpose(t) ==
    LET rank == Len(t.shape)
        swap(ix) == [d \in 1..rank |->
                       IF d = rank THEN ix[rank - 1]
                       ELSE IF d = rank - 1 THEN ix[rank]
                       ELSE ix[d]]
    IN Tensor(swap(t.shape), t.dtype,
              [ix \in Idx(swap(t.shape)) |-> t.data[swap(ix)]])

\* t.contiguous(): the same values in a fresh layout
contiguous(t) == t

unsqueeze0(t) ==
    Tensor(<<1>> \o t.shape, t.dtype,
           [ix \in Idx(<<1>> \o t.shape) |-> t.data[Tail(ix)]])

squeeze0(t) ==
    IF Len(t.shape) > 0 /\ t.shape[1] = 1
    THEN Tensor(Tail(t.shape), t.dtype,
                [ix \in Idx(Tail(t.shape)) |-> t.data[<<1>> \o ix]])
    ELSE t

\* sum over k of a[pa \o <<i, k>>] * b[pb \o <<k, j>>]
DotAt(a, b, pa, pb, i, j, K) ==
    LET s[k \in 0..K] ==
            IF k = 0 THEN 0
            ELSE s[k - 1] + a.data[pa \o <<i, k>>] * b.data[pb \o <<k, j>>]
    IN s[K]

aten_mm(a, b) ==
    IF Len(a.shape) # 2 \/ Len(b.shape) # 2 \/ a.shape[2] # b.shape[1]
    THEN Raised("RuntimeError")
    ELSE Val(Tensor(<<a.shape[1], b.shape[2]>>, a.dtype,
                    [ix \in Idx(<<a.shape[1], b.shape[2]>>) |->
                       DotAt(a, b, <<>>, <<>>, ix[1], ix[2], a.shape[2])]))

aten_bmm(a, b) ==
    IF Len(a.shape) # 3 \/ Len(b.shape) # 3 \/ a.shape[1] # b.shape[1]
         \/ a.shape[3] # b.shape[2]
    THEN Raised("RuntimeError")
    ELSE Val(Tensor(<<a.shape[1], a.shape[2], b.shape[3]>>, a.dtype,
                    [ix \in Idx(<<a.shape[1], a.shape[2], b.shape[3]>>) |->
                       DotAt(a, b, <<ix[1]>>, <<ix[1]>>, ix[2], ix[3],
                             a.shape[3])]))

\* whether a tensor of shape `from` broadcasts to shape `to`
Broadcasts(from, to) ==
    /\ Len(from) <= Len(to)
    /\ \A d \in 1..Len(from) :
         from[d] = 1 \/ from[d] = to[d + Len(to) - Len(from)]

\* the index of the broadcast operand that index ix of the result reads
BroadcastIndex(from, to, ix) ==
    [d \in 1..Len(from) |->
       IF from[d] = 1 THEN 1 ELSE ix[d + Len(to) - Len(from)]]

\* beta * input + alpha * (mat1 @ mat2), input broadcast to [M, N]
aten_addmm(input, mat1, mat2, beta, alpha) ==
    LET prod == aten_mm(mat1, mat2)
    IN IF prod.kind # "val" THEN prod
       ELSE IF ~Broadcasts(input.shape, prod.val.shape) THEN Raised("RuntimeError")
       ELSE Val(Tensor(prod.val.shape, mat1.dtype,
                       [ix \in Idx(prod.val.shape) |->
                         beta * input.data[BroadcastIndex(input.shape,
                                                          prod.val.shape, ix)]
                           + alpha * prod.val.data[ix]]))

\* alpha * res + beta * input with input broadcast to the shape of res
scaled_add(res, input, alpha, beta) ==
    IF ~Broadcasts(input.shape, res.shape) THEN Raised("RuntimeError")
    ELSE Val(Tensor(res.shape, res.dtype,
                    [ix \in Idx(res.shape) |->
                      alpha * res.data[ix]
                        + beta * input.data[BroadcastIndex(input.shape, res.shape,
                                                           ix)]]))

\* res[..., :rows - m, :cols - n] on the last two dimensions
drop_trailing(res, m, n) ==
    LET rank == Len(res.shape)
        kept == [d \in 1..rank |->
                   IF d = rank - 1 THEN res.shape[d] - m
                   ELSE IF d = rank THEN res.shape[d] - n
                   ELSE res.shape[d]]
    IN Tensor(kept, res.dtype, [ix \in Idx(kept) |-> res.data[ix]])

----------------------------------------------------------------------------
(* Padding / unpadding transform *)

call_mm(a, b) == aten_mm(a, b)

call_bmm(a, b) == aten_bmm(a, b)

call_addmm(bias, mat1, mat2, beta, alpha) ==
    IF bias = None THEN Raised("AttributeError")
    ELSE IF Len(bias.shape) = 2 /\ bias.shape[1] = 1
    THEN aten_addmm(squeeze0(bias), mat1, mat2, beta, alpha)
    ELSE aten_addmm(bias, mat1, mat2, beta, alpha)

\* the res[:-m, :] and res[:, :-n] steps on a call's outcome
strip_padding(r, m_padded_length, n_padded_length) ==
    IF r.kind # "val" THEN r
    ELSE Val(drop_trailing(r.val, m_padded_length, n_padded_length))

transposed(r) == IF r.kind # "val" THEN r ELSE Val(transpose(r.val))

pad_mm(mat1, mat2, m_padded_length, k_padded_length, n_padded_length, explicit_transpose) ==
    LET mat1_padded ==
            IF k_padded_length # 0 \/ m_padded_length # 0
            THEN constant_pad_nd(mat1, <<0, k_padded_length, 0, m_padded_length>>)
            ELSE mat1
        mat2_padded ==
            IF k_padded_length # 0 \/ n_padded_length # 0
            THEN constant_pad_nd(mat2, <<0, n_padded_length, 0, k_padded_length>>)
            ELSE mat2
        res == IF explicit_transpose
               THEN transposed(call_mm(contiguous(transpose(mat2_padded)),
                                       transpose(mat1_padded)))
               ELSE call_mm(mat1_padded, mat2_padded)
    IN strip_padding(res, m_padded_length, n_padded_length)

pad_bmm(mat1, mat2, m_padded_length, k_padded_length, n_padded_length, explicit_transpose) ==
    LET mat1_padded ==
            IF k_padded_length # 0 \/ m_padded_length # 0
            THEN constant_pad_nd(mat1,
                                 <<0, k_padded_length, 0, m_padded_length, 0, 0>>)
            ELSE mat1
        mat2_padded ==
            IF k_padded_length # 0 \/ n_padded_length # 0
            THEN constant_pad_nd(mat2,
                                 <<0, n_padded_length, 0, k_padded_length, 0, 0>>)
            ELSE mat2
        res == IF explicit_transpose
               THEN transposed(call_bmm(contiguous(transpose(mat2_padded)),
                                        transpose(mat1_padded)))
               ELSE call_bmm(mat1_padded, mat2_padded)
    IN strip_padding(res, m_padded_length, n_padded_length)

\* mutant: the two broadcast tests are missing
bias_padded_lengths_no_broadcast(input, mat1, mat2, m_padded_length, n_padded_length) ==
    [m |-> m_padded_length, n |-> n_padded_length]

\* bias_m_padded_length and bias_n_padded_length; input has rank 2 here
bias_padded_lengths(input, mat1, mat2, m_padded_length, n_padded_length) ==
    [m |-> IF input.shape[1] = 1 /\ mat1.shape[1] > 1 THEN 0 ELSE m_padded_length,
     n |-> IF input.shape[2] = 1 /\ mat2.shape[2] > 1 THEN 0 ELSE n_padded_length]

\* the handler of a RuntimeError e of call_addmm: str(e) + note1 + note2.
\* note1 holds input.shape as it is then (after the unsqueeze), note2 reads
\* input_padded.shape, absent bias or not
addmm_error(e, input, input_padded, mat1, mat2, mat1_padded, mat2_padded, pads, beta, alpha) ==
    LET note1 == IF input_padded # None
                 THEN [input |-> Val(input.shape), mat1 |-> mat1.shape,
                       mat2 |-> mat2.shape, pads |-> pads]
                 ELSE [input |-> None, mat1 |-> mat1.shape,
                       mat2 |-> mat2.shape, pads |-> pads]
    IN IF input_padded = None
       THEN Raised("AttributeError")
       ELSE [kind |-> "raise", exc |-> "RuntimeError",
             msg |-> <<e, note1,
                       [input_padded |-> input_padded.shape,
                        mat1_padded |-> mat1_padded.shape,
                        mat2_padded |-> mat2_padded.shape,
                        beta |-> beta, alpha |-> alpha]>>]

\* pad_addmm with the bias it hands to call_addmm and what that call did:
\* [out, input_padded, inner]
pad_addmm_locals(input0, mat1, mat2, m_padded_length, k_padded_length, n_padded_length, beta, alpha, explicit_transpose) ==
    LET mat1_padded ==
            IF k_padded_length # 0 \/ m_padded_length # 0
            THEN constant_pad_nd(mat1, <<0, k_padded_length, 0, m_padded_length>>)
            ELSE mat1
        mat2_padded ==
            IF k_padded_length # 0 \/ n_padded_length # 0
            THEN constant_pad_nd(mat2, <<0, n_padded_length, 0, k_padded_length>>)
            ELSE mat2
        pads_bias == input0 # None /\ ~explicit_transpose
        \* input after `input = input.unsqueeze(0)`
        input == IF pads_bias /\ Len(input0.shape) < 2
                 THEN unsqueeze0(input0) ELSE input0
        bias == bias_padded_lengths(input, mat1, mat2, m_padded_length,
                                    n_padded_length)
        input_padded ==
            IF ~pads_bias THEN None
            ELSE IF n_padded_length # 0 \/ m_padded_length # 0
            THEN (IF bias.m > 0 \/ bias.n > 0
                  THEN constant_pad_nd(input, <<0, bias.n, 0, bias.m>>)
                  ELSE input)
            ELSE input
    IN IF pads_bias /\ (n_padded_length # 0 \/ m_padded_length # 0)
            /\ Len(input.shape) < 2
       THEN \* input.shape[1] of a 1-D tensor
            [out |-> Raised("IndexError"), input_padded |-> None, inner |-> None]
       ELSE IF explicit_transpose
       THEN LET res == strip_padding(
                         transposed(call_mm(transpose(mat2_padded),
                                            transpose(mat1_padded))),
                         m_padded_length, n_padded_length)
            IN [out |-> IF res.kind = "val" /\ input # None
                        THEN scaled_add(res.val, input, alpha, beta)
                        ELSE res,
                input_padded |-> input_padded, inner |-> None]
       ELSE LET res == call_addmm(input_padded, mat1_padded, mat2_padded, beta,
                                  alpha)
            IN [out |-> IF res.kind = "raise" /\ res.exc = "RuntimeError"
                        THEN addmm_error(res, input, input_padded, mat1, mat2,
                                         mat1_padded, mat2_padded,
                                         <<m_padded_length, k_padded_length,
                                           n_padded_length, explicit_transpose>>,
                                         beta, alpha)
                        ELSE strip_padding(res, m_padded_length, n_padded_length),
                input_padded |-> input_padded, inner |-> res]

pad_addmm(input, mat1, mat2, m_padded_length, k_padded_length, n_padded_length, beta, alpha, explicit_transpose) ==
    pad_addmm_locals(input, mat1, mat2, m_padded_length, k_padded_length,
                     n_padded_length, beta, alpha, explicit_transpose).out

----------------------------------------------------------------------------
(* The replacements: the plan, then the transform *)

\* the descriptor of a tensor with values
AsFake(t) == CudaDesc([d \in 1..Len(t.shape) |-> IntDim(t.shape[d])], t.dtype)

mm_replace(mat1, mat2) ==
    LET p == mm_replace_plan(AsFake(mat1), AsFake(mat2))
    IN pad_mm(mat1, mat2, p.m, p.k, p.n, p.et)

bmm_replace(mat1, mat2) ==
    LET p == bmm_replace_plan(AsFake(mat1), AsFake(mat2))
    IN pad_bmm(mat1, mat2, p.m, p.k, p.n, p.et)

addmm_replace_locals(input, mat1, mat2, beta, alpha) ==
    LET p == addmm_replace_plan(AsFake(input), AsFake(mat1), AsFake(mat2))
    IN pad_addmm_locals(input, mat1, mat2, p.m, p.k, p.n, beta, alpha, p.et)

addmm_replace(input, mat1, mat2, beta, alpha) ==
    addmm_replace_locals(input, mat1, mat2, beta, alpha).out

----------------------------------------------------------------------------
(* SpecPad: one call of a transform or of a replacement *)

\* largest M, K, N (and batch) of the operands
MaxDim == 2
\* largest pad amount of a direct call
MaxPad == 1
\* the (beta, alpha) pairs of the addmm calls: the defaults, beta = 0, and a
\* pair that takes the scaled branch
Scalars == {<<1, 1>>, <<0, 1>>, <<2, 3>>}

\* values that tell the indices apart
Fill(shape, dtype, base) ==
    Tensor(shape, dtype,
           [ix \in Idx(shape) |->
              base + (IF Len(ix) >= 1 THEN ix[1] ELSE 0)
                   + (IF Len(ix) >= 2 THEN 3 * ix[2] ELSE 0)
                   + (IF Len(ix) >= 3 THEN 7 * ix[3] ELSE 0)])

\* the biases that broadcast to [M, N], and no bias
PadBiases(M, N, dtype) ==
    {None} \cup
    { Fill(sh, dtype, 10) :
        sh \in {<<>>, <<N>>, <<1>>, <<M, N>>, <<1, N>>, <<M, 1>>, <<1, 1>>} }

\* biases that do not broadcast to [M, N]: addmm fails on them
BadBiases(M, N, dtype) ==
    { Fill(sh, dtype, 10) : sh \in {<<N + 1>>, <<M + 1, N>>} }

PadDtypes == {"float32", "float16", "int64"}

NoPlan == [m_padded_length |-> 0, k_padded_length |-> 0, n_padded_length |-> 0,
           explicit_transpose |-> FALSE]

PadPlans ==
    [m_padded_length : 0..MaxPad, k_padded_length : 0..MaxPad,
     n_padded_length : 0..MaxPad, explicit_transpose : BOOLEAN]

\* the direct calls on operands of sizes M, K, N with the pad amounts pl
DirectCalls(M, K, N, pl) ==
    { [fn |-> "pad_mm", input |-> None,
       mat1 |-> Fill(<<M, K>>, "float32", 1), mat2 |-> Fill(<<K, N>>, "float32", 2),
       beta |-> 1, alpha |-> 1] @@ pl,
      [fn |-> "pad_bmm", input |-> None,
       mat1 |-> Fill(<<MaxDim, M, K>>, "float32", 1),
       mat2 |-> Fill(<<MaxDim, K, N>>, "float32", 2),
       beta |-> 1, alpha |-> 1] @@ pl }
    \cup
    { [fn |-> "pad_addmm", input |-> b,
       mat1 |-> Fill(<<M, K>>, "float32", 1), mat2 |-> Fill(<<K, N>>, "float32", 2),
       beta |-> sc[1], alpha |-> sc[2]] @@ pl :
        b \in PadBiases(M, N, "float32") \cup BadBiases(M, N, "float32"),
        sc \in Scalars }

\* the calls of the replacements on operands of sizes M, K, N of dtype dt
ReplaceCalls(M, K, N, dt) ==
    { [fn |-> "mm_replace", input |-> None,
       mat1 |-> Fill(<<M, K>>, dt, 1), mat2 |-> Fill(<<K, N>>, dt, 2),
       beta |-> 1, alpha |-> 1] @@ NoPlan,
      [fn |-> "bmm_replace", input |-> None,
       mat1 |-> Fill(<<MaxDim, M, K>>, dt, 1),
       mat2 |-> Fill(<<MaxDim, K, N>>, dt, 2),
       beta |-> 1, alpha |-> 1] @@ NoPlan }
    \cup
    { [fn |-> "addmm_replace", input |-> b,
       mat1 |-> Fill(<<M, K>>, dt, 1), mat2 |-> Fill(<<K, N>>, dt, 2),
       beta |-> sc[1], alpha |-> sc[2]] @@ NoPlan :
        b \in PadBiases(M, N, dt) \ {None}, sc \in Scalars }

InitPad ==
    /\ pc = "start"
    /\ \E M \in 1..MaxDim, K \in 1..MaxDim, N \in 1..MaxDim :
         \/ /\ \E pl \in PadPlans : args \in DirectCalls(M, K, N, pl)
            /\ config = DefaultConfig
         \/ /\ \E dt \in PadDtypes : args \in ReplaceCalls(M, K, N, dt)
            /\ config \in {[DefaultConfig EXCEPT !.shape_pad_use_transpose = t] :
                             t \in BOOLEAN}
    /\ ret = None
    /\ env = DefaultEnv
    /\ Idle

Returned(out, input_padded) ==
    [out |-> out, input_padded |-> input_padded, inner |-> None]

CallPadMm ==
    /\ pc = "start" /\ args.fn = "pad_mm"
    /\ ret' = Returned(pad_mm(args.mat1, args.mat2, args.m_padded_length,
                              args.k_padded_length, args.n_padded_length,
                              args.explicit_transpose), None)
    /\ pc' = "done"
    /\ UNCHANGED <<args, config, env, cache, hist, last, ncalls>>

CallPadBmm ==
    /\ pc = "start" /\ args.fn = "pad_bmm"
    /\ ret' = Returned(pad_bmm(args.mat1, args.mat2, args.m_padded_length,
                               args.k_padded_length, args.n_padded_length,
                               args.explicit_transpose), None)
    /\ pc' = "done"
    /\ UNCHANGED <<args, config, env, cache, hist, last, ncalls>>

CallPadAddmm ==
    /\ pc = "start" /\ args.fn = "pad_addmm"
    /\ ret' = pad_addmm_locals(args.input, args.mat1, args.mat2,
                               args.m_padded_length, args.k_padded_length,
                               args.n_padded_length, args.beta, args.alpha,
                               args.explicit_transpose)
    /\ pc' = "done"
    /\ UNCHANGED <<args, config, env, cache, hist, last, ncalls>>

CallMmReplace ==
    /\ pc = "start" /\ args.fn = "mm_replace"
    /\ ret' = Returned(mm_replace(args.mat1, args.mat2), None)
    /\ pc' = "done"
    /\ UNCHANGED <<args, config, env, cache, hist, last, ncalls>>

CallBmmReplace ==
    /\ pc = "start" /\ args.fn = "bmm_replace"
    /\ ret' = Returned(bmm_replace(args.mat1, args.mat2), None)
    /\ pc' = "done"
    /\ UNCHANGED <<args, config, env, cache, hist, last, ncalls>>

CallAddmmReplace ==
    /\ pc = "start" /\ args.fn = "addmm_replace"
    /\ ret' = addmm_replace_locals(args.input, args.mat1, args.mat2, args.beta,
                                   args.alpha)
    /\ pc' = "done"
    /\ UNCHANGED <<args, config, env, cache, hist, last, ncalls>>

NextPad ==
    \/ CallPadMm
    \/ CallPadBmm
    \/ CallPadAddmm
    \/ CallMmReplace
    \/ CallBmmReplace
    \/ CallAddmmReplace

SpecPad == InitPad /\ [][NextPad]_vars

\* the unpadded operator on the operands of the call
Unpadded ==
    IF args.fn \in {"pad_mm", "mm_replace"} THEN aten_mm(args.mat1, args.mat2)
    ELSE IF args.fn \in {"pad_bmm", "bmm_replace"} THEN aten_bmm(args.mat1, args.mat2)
    ELSE aten_addmm(args.input, args.mat1, args.mat2, args.beta, args.alpha)

DirectPadCall ==
    /\ pc = "done"
    /\ args.fn \in {"pad_mm", "pad_bmm", "pad_addmm"}
    /\ args.fn = "pad_addmm" =>
          /\ args.input # None
          /\ Broadcasts(args.input.shape,
                        <<args.mat1.shape[1], args.mat2.shape[2]>>)

\* C1: pad_mm, pad_bmm and pad_addmm, for all shape-compatible operands (any
\* bias that broadcasts to [M, N], 0-d included), any non-negative pad
\* triple and either explicit_transpose, return a tensor of the shape of
\* the unpadded operator's result and element-wise equal to it.
C1_RoundTrip ==
    DirectPadCall => ret.out = Unpadded

\* the case C1_RoundTrip fails on: a 0-d bias, M or N padded, no transpose
ScalarBiasPadded ==
    /\ args.fn = "pad_addmm" /\ args.input # None
    /\ Len(args.input.shape) = 0
    /\ ~args.explicit_transpose
    /\ (args.m_padded_length # 0 \/ args.n_padded_length # 0)

\* the round trip holds on every other call, and on a 0-d bias with M or N
\* padded pad_addmm raises IndexError
C1_RoundTripButScalarBias ==
    DirectPadCall =>
        IF ScalarBiasPadded
        THEN ret.out = Raised("IndexError")
        ELSE ret.out = Unpadded

\* a direct pad_addmm call with a [1, N] bias, all three pads and the
\* operands unaligned, returned the unpadded result
C1_Witness ==
    /\ DirectPadCall /\ args.fn = "pad_addmm"
    /\ args.input.shape = <<1, MaxDim>>
    /\ args.m_padded_length > 0 /\ args.k_padded_length > 0
    /\ args.n_padded_length > 0
    /\ ret.out.kind = "val" /\ ret.out = Unpadded

\* sizes of the bias as pad_addmm sees it once it has two dimensions
BiasRows(t) == IF Len(t.shape) = 2 THEN t.shape[1] ELSE 1
BiasCols(t) ==
    IF Len(t.shape) = 2 THEN t.shape[2]
    ELSE IF Len(t.shape) = 1 THEN t.shape[1]
    ELSE 1

AddmmCall ==
    /\ pc = "done"
    /\ args.fn \in {"pad_addmm", "addmm_replace"}
    /\ args.input # None

\* C5: in pad_addmm a bias with one row, with mat1 of more than one row, is
\* never padded along M; a bias with one column, with mat2 of more than one
\* column, is never padded along N.
C5_BroadcastSafety ==
    AddmmCall =>
        /\ (BiasRows(args.input) = 1 /\ args.mat1.shape[1] > 1
              /\ ret.input_padded # None /\ Len(ret.input_padded.shape) = 2)
             => ret.input_padded.shape[1] = 1
        /\ (BiasCols(args.input) = 1 /\ args.mat2.shape[2] > 1
              /\ ret.input_padded # None)
             => ret.input_padded.shape[Len(ret.input_padded.shape)] = 1

\* a [1, N] bias, M > 1, m_pad > 0 and n_pad > 0: the bias was padded along
\* N only and the call returned
C5_Witness ==
    /\ AddmmCall /\ args.fn = "pad_addmm"
    /\ args.input.shape = <<1, MaxDim>> /\ args.mat1.shape[1] > 1
    /\ args.m_padded_length > 0 /\ args.n_padded_length > 0
    /\ ~args.explicit_transpose
    /\ ret.input_padded.shape = <<1, MaxDim + args.n_padded_length>>
    /\ ret.out.kind = "val"

\* the call_addmm inside pad_addmm was made and failed
PaddedAddmmFailed ==
    /\ pc = "done"
    /\ args.fn \in {"pad_addmm", "addmm_replace"}
    /\ ret.inner.kind = "raise"

\* the shapes note2 appends: the operands as pad_addmm padded them
PaddedShapes ==
    /\ ret.out.msg[3].input_padded = ret.input_padded.shape
    /\ ret.out.msg[3].mat1_padded[1] =
          args.mat1.shape[1] + ret.out.msg[2].pads[1]
    /\ ret.out.msg[3].mat1_padded[2] =
          args.mat1.shape[2] + ret.out.msg[2].pads[2]
    /\ ret.out.msg[3].mat2_padded[1] =
          args.mat2.shape[1] + ret.out.msg[2].pads[2]
    /\ ret.out.msg[3].mat2_padded[2] =
          args.mat2.shape[2] + ret.out.msg[2].pads[3]

\* C11 as stated: whenever the padded addmm call inside pad_addmm fails,
\* pad_addmm ends with a RuntimeError whose message is the original message
\* with the argument shapes of pad_addmm and the padded operand shapes
\* appended, an absent bias included; never another kind of error.
C11_ErrorContext ==
    PaddedAddmmFailed =>
        /\ ret.out.kind = "raise" /\ ret.out.exc = "RuntimeError"
        /\ ret.out.msg[1] = ret.inner
        /\ ret.out.msg[2].input =
              (IF args.input = None THEN None ELSE Val(args.input.shape))
        /\ ret.out.msg[2].mat1 = args.mat1.shape
        /\ ret.out.msg[2].mat2 = args.mat2.shape
        /\ args.input # None => PaddedShapes

\* what holds of the code: with a bias the RuntimeError of the call is
\* re-raised with both notes, the bias shape in the first one being that of
\* the bias once it has two dimensions; without a bias call_addmm raises
\* AttributeError, which the handler does not catch
C11_ButAbsentBias ==
    PaddedAddmmFailed =>
        IF args.input = None
        THEN ret.inner = Raised("AttributeError") /\ ret.out = ret.inner
        ELSE /\ ret.inner.exc = "RuntimeError"
             /\ ret.out.kind = "raise" /\ ret.out.exc = "RuntimeError"
             /\ ret.out.msg[1] = ret.inner
             /\ ret.out.msg[2].input =
                   Val(IF Len(args.input.shape) < 2
                       THEN <<1>> \o args.input.shape ELSE args.input.shape)
             /\ ret.out.msg[2].mat1 = args.mat1.shape
             /\ ret.out.msg[2].mat2 = args.mat2.shape
             /\ PaddedShapes

\* a bias of M + 1 rows with M and N padded: addmm failed on the padded
\* operands and the RuntimeError carries the argument and the padded shapes
C11_Witness ==
    /\ PaddedAddmmFailed /\ args.fn = "pad_addmm"
    /\ args.input # None /\ Len(args.input.shape) = 2
    /\ args.m_padded_length > 0 /\ args.n_padded_length > 0
    /\ ret.out.kind = "raise" /\ ret.out.exc = "RuntimeError"
    /\ ret.out.msg[1] = Raised("RuntimeError")
    /\ ret.out.msg[2].input = Val(args.input.shape)
    /\ ret.out.msg[3].input_padded =
          <<args.input.shape[1] + args.m_padded_length,
            args.input.shape[2] + args.n_padded_length>>

----------------------------------------------------------------------------
(* should_pad_bench: the benefit decision, over the pad cache               *)

\* arithmetic_intensity > 0.5 * (1000 * tflops / gbps), cross-multiplied;
\* a device whose throughput lookup raises counts as compute bound
is_mm_compute_bound(M, K, N, dtype) ==
    LET denominator == M * K + N * K + M * N
    IN IF denominator = 0 THEN FALSE
       ELSE IF ~env.device_known \/ env.gbps = 0 THEN TRUE
       ELSE 2 * env.gbps * (M * N * K) > 1000 * env.tflops * denominator

get_cached_should_pad(c, key) ==
    IF key \in DOMAIN c THEN Val(c[key]) ELSE None

set_cached_should_pad(c, key, value) ==
    [k \in DOMAIN c \cup {key} |-> IF k = key THEN value ELSE c[k]]

\* (t.shape, t.stride(), t.dtype) as str() renders it: a symbolic size
\* prints as its symbol
tensor_key(t) ==
    <<[i \in 1..Len(t.shape) |-> DimStr(t.shape[i])],
      [i \in 1..Len(t.stride) |-> DimStr(t.stride[i])],
      t.dtype>>

NoneKey == <<<<>>, <<>>, "None">>

should_pad_bench_key(mat1, mat2, op, input) ==
    LET tf32_key == IF mat1.dtype # "float32" THEN "None"
                    ELSE IF config.allow_tf32 THEN "True" ELSE "False"
    IN <<tensor_key(mat1), tensor_key(mat2), op,
         IF input = None THEN NoneKey ELSE tensor_key(input),
         tf32_key, config.force_shape_pad>>

\* FixedLayout(size=[batchsize, m, n], ...) asserts on a torch.SymInt size;
\* otherwise use_cutlass_template answers from the backend configuration
cutlass_probe(d) ==
    IF \E x \in {d.batchsize, d.m, d.n} : IsSymInt(x)
    THEN Raised("AssertionError")
    ELSE Val(env.cutlass)

\* mutant: the last branch of the operator dispatch takes every other
\* operator as bmm
bench_supports_any(op) == TRUE

\* the operator dispatch of should_pad_bench has a branch for op
bench_supports(op) == op \in {"mm", "addmm", "bmm"}

\* mutant: the force flag is tested before the nothing-to-pad test
early_decision_force_first(plan) ==
    IF config.force_shape_pad THEN Val(TRUE)
    ELSE IF plan.m = 0 /\ plan.k = 0 /\ plan.n = 0 /\ ~plan.et THEN Val(FALSE)
    ELSE None

\* the two tests right after the plan: nothing to pad, then the force flag
early_decision(plan) ==
    IF plan.m = 0 /\ plan.k = 0 /\ plan.n = 0 /\ ~plan.et THEN Val(FALSE)
    ELSE IF config.force_shape_pad THEN Val(TRUE)
    ELSE None

\* mutant: the triton test is made before the cutlass probe
backend_decision_triton_first(d, dtype) ==
    IF ~env.has_triton THEN Val(FALSE)
    ELSE IF cutlass_probe(d) = Val(TRUE) THEN Val(TRUE)
    ELSE IF ~is_mm_compute_bound(d.m.v, d.k.v, d.n.v, dtype) THEN Val(FALSE)
    ELSE None

\* the tests between the force flag and the cache: the cutlass probe (its
\* AssertionError ignored), has_triton, is_mm_compute_bound
backend_decision(d, dtype) ==
    IF cutlass_probe(d) = Val(TRUE) THEN Val(TRUE)
    ELSE IF ~env.has_triton THEN Val(FALSE)
    ELSE IF ~is_mm_compute_bound(d.m.v, d.k.v, d.n.v, dtype) THEN Val(FALSE)
    ELSE None

\* mutant: the 10% margin is lost
benchmark_verdict_no_margin(ori_time, pad_time) ==
    config.skip_do_bench_times \/ ori_time > pad_time

\* should_pad = _skip_do_bench_times or ori_time > pad_time * 1.1
benchmark_verdict(ori_time, pad_time) ==
    config.skip_do_bench_times \/ 10 * ori_time > 11 * pad_time

Outcome(result, plan, key, looked_up, benched, c) ==
    [result |-> result, plan |-> plan, key |-> key, looked_up |-> looked_up,
     benched |-> benched, cache |-> c]

\* should_pad_bench against cache c; ori_time and pad_time are what the two
\* do_bench passes measure if the call gets that far
should_pad_bench(c, mat1, mat2, op, input, ori_time, pad_time) ==
    IF ~bench_supports(op)
    THEN Outcome(Val(FALSE), None, None, FALSE, FALSE, c)
    ELSE
    LET d == bench_dims(mat1, mat2, op)
        plan == bench_plan(mat1, mat2, op)
        early == early_decision(plan)
        backend == backend_decision(d, mat1.dtype)
        key == should_pad_bench_key(mat1, mat2, op, input)
        cached_pad == get_cached_should_pad(c, key)
        should_pad == benchmark_verdict(ori_time, pad_time)
    IN IF early # None
       THEN Outcome(early, plan, None, FALSE, FALSE, c)
       ELSE IF backend # None
       THEN Outcome(backend, plan, None, FALSE, FALSE, c)
       ELSE IF cached_pad # None
       THEN Outcome(cached_pad, plan, Val(key), TRUE, FALSE, c)
       ELSE Outcome(Val(should_pad), plan, Val(key), TRUE, TRUE,
                    set_cached_should_pad(c, key, should_pad))

----------------------------------------------------------------------------
(* Spec: should_pad_bench called repeatedly in one process, the flags       *)
(* patched between the calls                                                *)

\* number of should_pad_bench calls in a behaviour
MaxCalls == 2

\* (M, K, N) of the calls: fp32 operands, so 4 is aligned and 5 is not;
\* s0 is a symbolic size with hint 5
BenchShapes ==
    {<<IntDim(4), IntDim(4), IntDim(4)>>,
     <<IntDim(5), IntDim(4), IntDim(4)>>,
     <<IntDim(4), IntDim(4), IntDim(5)>>,
     <<IntDim(5), IntDim(4), IntDim(5)>>,
     <<IntDim(4), IntDim(5), IntDim(4)>>,
     <<SymDim("s0", 5), IntDim(4), IntDim(5)>>}

\* an operator the dispatch of should_pad_bench has no branch for
OtherOp == "baddbmm"

BenchCall(op, mat1, mat2, input) ==
    [op |-> op, mat1 |-> mat1, mat2 |-> mat2, input |-> input]

\* the unsupported operator needs no more than an aligned and an unaligned
\* shape
OtherShapes ==
    {<<IntDim(4), IntDim(4), IntDim(4)>>, <<IntDim(5), IntDim(4), IntDim(5)>>}

\* the calls: operands on the device, contiguous, as should_pad_common lets
\* them through; the bias of addmm is a row of N entries
BenchCalls ==
    {BenchCall("mm", CudaDesc(<<s[1], s[2]>>, "float32"),
               CudaDesc(<<s[2], s[3]>>, "float32"), None) : s \in BenchShapes}
    \cup
    {BenchCall("addmm", CudaDesc(<<s[1], s[2]>>, "float32"),
               CudaDesc(<<s[2], s[3]>>, "float32"),
               CudaDesc(<<s[3]>>, "float32")) : s \in OtherShapes}
    \cup
    {BenchCall(op, CudaDesc(<<IntDim(2), s[1], s[2]>>, "float32"),
               CudaDesc(<<IntDim(2), s[2], s[3]>>, "float32"), None) :
        op \in {"bmm", OtherOp}, s \in OtherShapes}

\* (ori_time, pad_time) pairs around the 1.1 threshold
BenchTimes == {<<10, 10>>, <<11, 10>>, <<12, 10>>}

\* the flags should_pad_bench reads
BenchFlags ==
    {"force_shape_pad", "shape_pad_use_transpose", "allow_tf32",
     "skip_do_bench_times"}

Env(has_triton, cutlass, device_known, gbps) ==
    [has_triton |-> has_triton, cutlass |-> cutlass,
     device_known |-> device_known, tflops |-> 1, gbps |-> gbps]

\* the processes: the one where every test before the cache passes (the
\* shapes above are compute bound at 1000 GB/s and memory bound at 100), and
\* the ones where the cutlass backend takes the layout, triton is missing,
\* the device is memory bound, or the throughput lookup raises
Envs ==
    {Env(TRUE, FALSE, TRUE, 1000), Env(TRUE, TRUE, TRUE, 1000),
     Env(FALSE, FALSE, TRUE, 1000), Env(FALSE, TRUE, TRUE, 1000),
     Env(TRUE, FALSE, TRUE, 100), Env(TRUE, FALSE, FALSE, 1000)}

Init ==
    /\ pc = "idle"
    /\ args = None
    /\ ret = None
    /\ config = DefaultConfig
    /\ env \in Envs
    /\ cache = EmptyMap
    /\ hist = EmptyMap
    /\ last = None
    /\ ncalls = 0

\* config.patch of one flag
SetFlag(f) ==
    /\ ncalls < MaxCalls
    /\ config' = [config EXCEPT ![f] = ~@]
    /\ UNCHANGED <<pc, args, ret, env, cache, hist, last, ncalls>>

\* the plan and the flags outside the key under which a benchmark wrote a
\* cache entry
Written(plan) ==
    Val([plan |-> plan,
         transpose |-> config.shape_pad_use_transpose,
         skip |-> config.skip_do_bench_times])

\* the history of the descriptor tuple (shapes, strides, dtypes, operator,
\* tf32 flag, force flag) after a call that returned `result`
Record(h, tuple, result, benched, plan) ==
    IF tuple \in DOMAIN h
    THEN [h EXCEPT ![tuple] =
            [first |-> @.first,
             written |-> IF benched THEN Written(plan) ELSE @.written,
             transpose |-> @.transpose,
             benches |-> @.benches + (IF benched THEN 1 ELSE 0),
             same |-> @.same /\ result = @.first,
             later_bench |-> @.later_bench \/ benched,
             flag_same |-> @.flag_same
                             /\ config.shape_pad_use_transpose = @.transpose]]
    ELSE [k \in DOMAIN h \cup {tuple} |->
            IF k = tuple
            THEN [first |-> result,
                  written |-> IF benched THEN Written(plan) ELSE None,
                  transpose |-> config.shape_pad_use_transpose,
                  benches |-> IF benched THEN 1 ELSE 0,
                  same |-> TRUE, later_bench |-> FALSE, flag_same |-> TRUE]
            ELSE h[k]]

ShouldPadBench(c, t) ==
    /\ ncalls < MaxCalls
    /\ LET r == should_pad_bench(cache, c.mat1, c.mat2, c.op, c.input,
                                 t[1], t[2])
           tuple == should_pad_bench_key(c.mat1, c.mat2, c.op, c.input)
       IN /\ cache' = r.cache
          /\ hist' = Record(hist, tuple, r.result.val, r.benched, r.plan)
          /\ last' = [call |-> c, config |-> config, out |-> r.result,
                      plan |-> r.plan, key |-> r.key,
                      looked_up |-> r.looked_up, benched |-> r.benched,
                      times |-> IF r.benched THEN t ELSE <<0, 0>>,
                      cache_written |-> r.cache # cache,
                      seen |-> tuple \in DOMAIN hist]
    /\ ncalls' = ncalls + 1
    /\ UNCHANGED <<pc, args, ret, config, env>>

Next ==
    \/ \E f \in BenchFlags : SetFlag(f)
    \/ \E c \in BenchCalls, t \in BenchTimes : ShouldPadBench(c, t)

Spec == Init /\ [][Next]_vars

Called == last # None

\* C2 as stated: two calls with the same (shapes, strides, dtypes, operator,
\* tf32 flag, force flag) tuple benchmark at most once in total, and every
\* later call returns what the first returned, without benchmarking.
C2_CacheCorrectness ==
    \A tuple \in DOMAIN hist :
        /\ hist[tuple].benches <= 1
        /\ hist[tuple].same
        /\ ~hist[tuple].later_bench

\* what holds of the code: a tuple is never benchmarked twice, and the calls
\* of a tuple agree, the later ones without benchmarking, as long as
\* shape_pad_use_transpose is the same at each of them
C2_ButTransposeFlag ==
    \A tuple \in DOMAIN hist :
        /\ hist[tuple].benches <= 1
        /\ hist[tuple].flag_same =>
              hist[tuple].same /\ ~hist[tuple].later_bench

\* the second call of a tuple hit the cache entry the first one wrote and
\* returned the benchmarked answer
C2_Witness ==
    /\ Called /\ last.seen /\ last.looked_up /\ ~last.benched
    /\ LET tuple == last.key.val
       IN /\ hist[tuple].benches = 1
          /\ hist[tuple].same
          /\ last.out = Val(hist[tuple].first)

\* M, K and N of the last call are concrete multiples of the alignment
AllAligned ==
    LET d == bench_dims(last.call.mat1, last.call.mat2, last.call.op)
        a1 == get_alignment_size(last.call.mat1)
        a2 == get_alignment_size(last.call.mat2)
    IN /\ a1 > 0 /\ a2 > 0
       /\ \A x \in {d.m, d.k} : ~x.sym /\ x.v % a1 = 0
       /\ ~d.n.sym /\ d.n.v % a2 = 0

\* C3: with force_shape_pad set and M, K, N all aligned, should_pad_bench
\* returns false: nothing-to-pad is tested before the force flag.
C3_ForceAfterNothingToPad ==
    (Called /\ last.call.op \in Ops /\ last.config.force_shape_pad
       /\ AllAligned)
      => /\ last.out = Val(FALSE)
         /\ last.plan = Plan(0, 0, 0, FALSE)

\* an aligned mm call under force_shape_pad returned false, in a process
\* where an unaligned one is forced to true
C3_Witness ==
    /\ Called /\ last.call.op = "mm" /\ last.config.force_shape_pad
    /\ AllAligned
    /\ last.out = Val(FALSE)
    /\ \E tuple \in DOMAIN hist : hist[tuple].first

UnsupportedOp == Called /\ last.call.op \notin Ops

\* C10 as stated: a call with an operator other than mm, bmm, addmm signals
\* an internal error.
C10_UnsupportedOpRaises ==
    UnsupportedOp => last.out.kind = "raise"

\* C10 as the code has it: a call with an operator other than mm, bmm, addmm
\* returns false, whatever the flags and the shapes, without raising,
\* benchmarking, or reading or writing the cache.
C10_UnsupportedOpDeclines ==
    UnsupportedOp =>
        /\ last.out = Val(FALSE)
        /\ ~last.benched /\ ~last.looked_up /\ ~last.cache_written

\* an unsupported operator on unaligned operands under force_shape_pad was
\* declined
C10_Witness ==
    /\ UnsupportedOp
    /\ last.config.force_shape_pad
    /\ ~AllAligned
    /\ last.out = Val(FALSE)

\* the last call was for mm, bmm or addmm and its plan pads something or
\* transposes
PlanPads ==
    /\ Called /\ last.call.op \in Ops
    /\ last.plan # Plan(0, 0, 0, FALSE)

\* the cutlass probe of the last call applies: no AssertionError, and the
\* backend takes the layout
CutlassApplies ==
    LET d == bench_dims(last.call.mat1, last.call.mat2, last.call.op)
    IN env.cutlass /\ \A x \in {d.batchsize, d.m, d.n} : ~x.sym

ComputeBound ==
    LET d == bench_dims(last.call.mat1, last.call.mat2, last.call.op)
    IN is_mm_compute_bound(d.m.v, d.k.v, d.n.v, last.call.mat1.dtype)

\* C12: for mm, bmm, addmm with a plan that pads or transposes, the first
\* applicable test decides, in this order: force_shape_pad gives true; the
\* cutlass probe applies gives true (its assertion failure is ignored); no
\* triton gives false; not compute bound gives false; only otherwise is the
\* cache read or a benchmark run.
C12_CheckOrder ==
    PlanPads =>
        IF last.config.force_shape_pad
        THEN last.out = Val(TRUE) /\ ~last.looked_up /\ ~last.benched
        ELSE IF CutlassApplies
        THEN last.out = Val(TRUE) /\ ~last.looked_up /\ ~last.benched
        ELSE IF ~env.has_triton
        THEN last.out = Val(FALSE) /\ ~last.looked_up /\ ~last.benched
        ELSE IF ~ComputeBound
        THEN last.out = Val(FALSE) /\ ~last.looked_up /\ ~last.benched
        ELSE last.looked_up

\* without triton but with the cutlass backend taking the layout, an
\* unforced call returned true without reading the cache
C12_Witness ==
    /\ PlanPads /\ ~last.config.force_shape_pad
    /\ CutlassApplies /\ ~env.has_triton
    /\ last.out = Val(TRUE) /\ ~last.looked_up

\* the last call read the cache and found no entry for its key
CacheMiss == Called /\ last.looked_up /\ last.benched

\* C13: on a cache miss should_pad_bench returns true exactly when the
\* skip-timing flag is set or the unpadded time exceeds 1.1 times the padded
\* time, and on return the cache maps the key of the call to the boolean
\* returned.
C13_MissDecision ==
    CacheMiss =>
        /\ last.out.kind = "val"
        /\ last.out.val <=>
              (last.config.skip_do_bench_times
                 \/ 10 * last.times[1] > 11 * last.times[2])
        /\ last.cache_written
        /\ last.key.val \in DOMAIN cache
        /\ cache[last.key.val] = last.out.val

\* a miss with the unpadded time exactly 1.1 times the padded time and the
\* skip flag off: false was returned and cached
C13_Witness ==
    /\ CacheMiss /\ ~last.config.skip_do_bench_times
    /\ 10 * last.times[1] = 11 * last.times[2]
    /\ last.out = Val(FALSE)
    /\ cache[last.key.val] = FALSE

----------------------------------------------------------------------------
(* The guards of the three patterns: should_pad_mm, should_pad_bmm,         *)
(* should_pad_addmm                                                         *)

\* a match: the graph, its output node (the candidate), and the fake tensors
\* of the operands
Match(graph, search_node, mat1, mat2, input) ==
    [graph |-> graph, search_node |-> search_node, mat1 |-> mat1,
     mat2 |-> mat2, input |-> input]

\* what a guard returned or raised, which of the three parts it ran, what
\* should_pad_bench did, and the cache afterwards
GuardOutcome(out, analysed, common, bench, c) ==
    [out |-> out, analysed |-> analysed, common |-> common, bench |-> bench,
     cache |-> c]

\* mutant: the layout analysis is run and obeyed whatever keep_output_stride
guard_ignores_keep_output_stride(c, match, op, input, ori_time, pad_time) ==
    LET layout == _result_layout_affects_graph_output(match.graph,
                                                      match.search_node)
        bench == should_pad_bench(c, match.mat1, match.mat2, op, input,
                                  ori_time, pad_time)
    IN IF layout.kind = "raise"
       THEN GuardOutcome(layout, TRUE, FALSE, None, c)
       ELSE IF layout.val
       THEN GuardOutcome(Val(FALSE), TRUE, FALSE, None, c)
       ELSE IF ~should_pad_common(match.mat1, match.mat2, input)
       THEN GuardOutcome(Val(FALSE), TRUE, TRUE, None, c)
       ELSE GuardOutcome(bench.result, TRUE, TRUE, Val(bench), bench.cache)

\* the body the three guards share, op and input apart
guard(c, match, op, input, ori_time, pad_time) ==
    LET layout == _result_layout_affects_graph_output(match.graph,
                                                      match.search_node)
        analysed == config.keep_output_stride
        bench == should_pad_bench(c, match.mat1, match.mat2, op, input,
                                  ori_time, pad_time)
    IN IF analysed /\ layout.kind = "raise"
       THEN GuardOutcome(layout, TRUE, FALSE, None, c)
       ELSE IF analysed /\ layout.val
       THEN GuardOutcome(Val(FALSE), TRUE, FALSE, None, c)
       ELSE IF ~should_pad_common(match.mat1, match.mat2, input)
       THEN GuardOutcome(Val(FALSE), analysed, TRUE, None, c)
       ELSE GuardOutcome(bench.result, analysed, TRUE, Val(bench), bench.cache)

should_pad_mm(c, match, ori_time, pad_time) ==
    guard(c, match, "mm", None, ori_time, pad_time)

should_pad_bmm(c, match, ori_time, pad_time) ==
    guard(c, match, "bmm", None, ori_time, pad_time)

should_pad_addmm(c, match, ori_time, pad_time) ==
    guard(c, match, "addmm", match.input, ori_time, pad_time)

----------------------------------------------------------------------------
(* SpecGuard: one call of a guard on a match                                *)

\* the candidate feeds the output directly; through aten.contiguous, which
\* redefines the layout; through a call_method node of a graph that is not
\* functionalized
GuardGraphs ==
    LET x == FxNode("placeholder", "x", <<>>, <<>>)
        cand == FxNode("call_function", "aten.mm",
                       <<NodeArg(Placeholder), NodeArg(Placeholder)>>, <<>>)
        out == FxNode("output", "output", <<ListArg(<<NodeArg(3)>>)>>, <<>>)
    IN { <<x, cand, FxNode("call_function", "aten.relu",
                           <<NodeArg(Candidate)>>, <<>>), out>>,
         <<x, cand, FxNode("call_function", "aten.contiguous",
                           <<NodeArg(Candidate)>>, <<>>), out>>,
         <<x, cand, FxNode("call_method", "view",
                           <<NodeArg(Candidate)>>, <<>>), out>> }

\* operands of the guards: the calls of Spec on mm, bmm and addmm, and the
\* same with mat1 off the device, which should_pad_common rejects
GuardOperands ==
    {c \in BenchCalls : c.op \in Ops}
    \cup {[c EXCEPT !.mat1.is_cuda = FALSE] : c \in {b \in BenchCalls : b.op \in Ops}}

GuardConfigs ==
    {[DefaultConfig EXCEPT !.keep_output_stride = k, !.force_shape_pad = f,
                           !.shape_padding = p, !.shape_pad_use_transpose = t] :
        k \in BOOLEAN, f \in BOOLEAN, p \in BOOLEAN, t \in BOOLEAN}

\* the cache before the call: empty, or holding the key of the call from an
\* earlier benchmark
InitGuard ==
    /\ pc = "start"
    /\ config \in GuardConfigs
    /\ env \in {Env(TRUE, FALSE, TRUE, 1000), Env(FALSE, FALSE, TRUE, 1000)}
    /\ \E c \in GuardOperands, g \in GuardGraphs :
         /\ args = [fn |-> c.op,
                    match |-> Match(g, Candidate, c.mat1, c.mat2, c.input)]
         /\ cache \in {EmptyMap} \cup
              {set_cached_should_pad(
                  EmptyMap,
                  should_pad_bench_key(c.mat1, c.mat2, c.op, c.input), b) :
                    b \in BOOLEAN}
    /\ ret = None
    /\ hist = EmptyMap
    /\ last = None
    /\ ncalls = 0

\* the guard ran: its outcome is in ret, the cache it started from in last
GuardStep(r) ==
    /\ ret' = r
    /\ cache' = r.cache
    /\ last' = Val(cache)
    /\ pc' = "done"
    /\ UNCHANGED <<args, config, env, hist, ncalls>>

CallShouldPadMm ==
    /\ pc = "start" /\ args.fn = "mm"
    /\ \E t \in BenchTimes : GuardStep(should_pad_mm(cache, args.match, t[1], t[2]))

CallShouldPadBmm ==
    /\ pc = "start" /\ args.fn = "bmm"
    /\ \E t \in BenchTimes : GuardStep(should_pad_bmm(cache, args.match, t[1], t[2]))

CallShouldPadAddmm ==
    /\ pc = "start" /\ args.fn = "addmm"
    /\ \E t \in BenchTimes : GuardStep(should_pad_addmm(cache, args.match, t[1], t[2]))

NextGuard ==
    \/ CallShouldPadMm
    \/ CallShouldPadBmm
    \/ CallShouldPadAddmm

SpecGuard == InitGuard /\ [][NextGuard]_vars

\* the layout analysis on the match of the call
LayoutOfMatch ==
    _result_layout_affects_graph_output(args.match.graph, args.match.search_node)

GuardInput == IF args.fn = "addmm" THEN args.match.input ELSE None

\* should_pad_common and should_pad_bench on the operands of the match, from
\* the cache the call started with
CommonAndBench ==
    IF ~should_pad_common(args.match.mat1, args.match.mat2, GuardInput)
    THEN {Val(FALSE)}
    ELSE {should_pad_bench(last.val, args.match.mat1, args.match.mat2, args.fn,
                           GuardInput, t[1], t[2]).result : t \in BenchTimes}

\* C14: for should_pad_mm, should_pad_bmm and should_pad_addmm: with
\* keep_output_stride on and the layout analysis reporting the match as
\* affected, the guard returns false before eligibility, the force flag, the
\* cache or the benchmark are consulted, and the cache is unchanged; with
\* keep_output_stride off the layout analysis is not run and the guard is
\* should_pad_common and should_pad_bench.
C14_GuardFrame ==
    pc = "done" =>
        /\ (config.keep_output_stride /\ LayoutOfMatch = Val(TRUE)) =>
              /\ ret.out = Val(FALSE)
              /\ ~ret.common /\ ret.bench = None
              /\ cache = last.val
        /\ ~config.keep_output_stride =>
              /\ ~ret.analysed
              /\ ret.out \in CommonAndBench
              /\ ret.common
              /\ ret.bench # None <=>
                    should_pad_common(args.match.mat1, args.match.mat2,
                                      GuardInput)

\* keep_output_stride on, an affected match, eligible operands under
\* force_shape_pad with something to pad: the guard returned false
C14_WitnessAffected ==
    /\ pc = "done" /\ config.keep_output_stride
    /\ LayoutOfMatch = Val(TRUE)
    /\ config.force_shape_pad
    /\ should_pad_common(args.match.mat1, args.match.mat2, GuardInput)
    /\ bench_plan(args.match.mat1, args.match.mat2, args.fn)
          # Plan(0, 0, 0, FALSE)
    /\ ret.out = Val(FALSE)

----------------------------------------------------------------------------
(* The plan of the guard against the plan of the rewrite (SpecPlan)         *)

ConcreteSizes == ~PlanM.sym /\ ~PlanK.sym /\ ~PlanN.sym

\* C16 as stated: for mm, bmm and addmm, every concrete M, K, N, dtype, bias
\* rank and flag setting, the plan should_pad_bench computes and benchmarks
\* is the plan mm_replace / bmm_replace / addmm_replace computes and
\* applies.
C16_PlanAgreement ==
    (pc = "done" /\ ConcreteSizes) => ret.bench = ret.replace

\* the case the two differ in: addmm with a bias of fewer than two
\* dimensions, the transpose strategy on, M aligned and N not
LowRankBiasTranspose ==
    /\ args.op = "addmm" /\ Len(args.input.shape) < 2
    /\ MayUseTranspose
    /\ ~Unaligned(PlanM, args.mat1) /\ Unaligned(PlanN, args.mat2)

\* what holds of the code: the plans agree except in that case, where the
\* guard plans (and benchmarks) the explicit transpose with no N pad and the
\* rewrite pads N without transposing
C16_ButLowRankBias ==
    (pc = "done" /\ ConcreteSizes) =>
        IF LowRankBiasTranspose
        THEN /\ ret.bench.val.et /\ ret.bench.val.n = 0
             /\ ~ret.replace.val.et /\ ret.replace.val.n # 0
             /\ ret.bench.val.m = 0 /\ ret.replace.val.m = 0
             /\ ret.bench.val.k = ret.replace.val.k
        ELSE ret.bench = ret.replace

\* addmm with a 2-D bias, the transpose strategy on, M aligned and N not:
\* guard and rewrite both chose the explicit transpose
C16_Witness ==
    /\ pc = "done" /\ ConcreteSizes
    /\ args.op = "addmm" /\ Len(args.input.shape) = 2
    /\ MayUseTranspose
    /\ ~Unaligned(PlanM, args.mat1) /\ Unaligned(PlanN, args.mat2)
    /\ ret.bench.val.et /\ ret.bench = ret.replace

\* the last call produced a key that an earlier benchmark had written
SameKeyAsWriter ==
    /\ Called /\ last.looked_up /\ ~last.benched
    /\ hist[last.key.val].written # None

\* C17 as stated: two calls that produce the same key, whatever flags were
\* changed in between, have the same plan and the same decision rule
\* (timing comparison or skip-timing), so the boolean of a hit is one a
\* fresh benchmark of the call's plan could have produced.
C17_KeyDeterminesDecision ==
    SameKeyAsWriter =>
        LET w == hist[last.key.val].written.val
        IN /\ last.plan = w.plan
           /\ last.config.skip_do_bench_times = w.skip

\* what holds of the code: the plan is the writer's when
\* shape_pad_use_transpose is as it was at the benchmark, and the rule is
\* the writer's when _skip_do_bench_times is as it was; the key holds
\* neither flag
C17_ButFlagsOutsideKey ==
    SameKeyAsWriter =>
        LET w == hist[last.key.val].written.val
        IN /\ last.config.shape_pad_use_transpose = w.transpose
                => last.plan = w.plan
           /\ last.out = Val(cache[last.key.val])

\* a hit under the flags of the benchmark that wrote the entry: same plan,
\* same rule, the cached boolean returned
C17_Witness ==
    /\ SameKeyAsWriter
    /\ last.plan = hist[last.key.val].written.val.plan
    /\ last.config.skip_do_bench_times = hist[last.key.val].written.val.skip
    /\ last.out = Val(cache[last.key.val])

====
